---- MODULE Spec2Model ----
(***************************************************************************)
(* A model of python/ipython_cell.py of vim-ipython-cell: the cell         *)
(* segmenter (_get_cell_boundaries and the three boundary queries), the    *)
(* line-shell encoder (filetertext), execute_cell with its %cpaste loop    *)
(* and the socket transport (sendterm_by_socket, is_socket_closed).        *)
(*                                                                         *)
(* Texts are sequences of code points (integers); a buffer is a sequence   *)
(* of lines; an optional value is <<>> (None) or <<v>>.                    *)
(***************************************************************************)
EXTENDS Integers, Sequences, FiniteSets, TLC

VARIABLES
    op,              \* the operation that ran last ("init" before any)
    current_row,     \* vim.current.window.cursor row (1-indexed)
    cell_boundaries, \* the boundary list handed to the boundary queries
    ret,             \* what the last segmenter call returned
    buffer,          \* vim.current.buffer: the lines of the document
    cfg,             \* the g: options the code reads with vim.eval
    text,            \* the text handed to filetertext / sendterm_by_socket
    payload,         \* what filetertext returned
    term,            \* transmissions of the last handler to the terminal
    clipboard,       \* what the last handler copied to the clipboard
    termsock,        \* the global socket handle: its connection state
    wire,            \* bytes the last send wrote on the socket
    trace,           \* socket calls of the last send, in order
    remaining_chunks, \* the local list of the %cpaste loop of execute_cell
    exec_pc          \* where execute_cell stands: "idle", "loop" or "done"

vars == << op, current_row, cell_boundaries, ret, buffer, cfg, text, payload,
           term, clipboard, termsock, wire, trace, remaining_chunks,
           exec_pc >>

----------------------------------------------------------------------------
(* Bounds of the model *)

MaxRow == 5
MaxLines == 3
MaxTextLen == 5
MaxMsgLen == 2

----------------------------------------------------------------------------
(* Characters *)

NUL == 0
LF == 10
CR == 13
CTRL_U == 21
SP == 32
HASH == 35
DOT == 46

None == << >>
Some(v) == << v >>

Last(s) == s[Len(s)]
Front(s) == SubSeq(s, 1, Len(s) - 1)

\* Sorted and duplicate-free lists over 1..n: what sorted(set(...)) returns.
RECURSIVE SetToSortedSeq(_)
SetToSortedSeq(S) ==
    IF S = {} THEN << >>
    ELSE LET m == CHOOSE x \in S : \A y \in S : x <= y
         IN  << m >> \o SetToSortedSeq(S \ {m})

IsStrictlyAscending(s) == \A i \in 1..(Len(s) - 1) : s[i] < s[i + 1]

SeqToSet(s) == { s[i] : i \in 1..Len(s) }

----------------------------------------------------------------------------
(* Segmenter queries *)

\* The loop of _get_current_cell_boundaries from index i on: start_row is
\* <<>> while the local is unbound.
RECURSIVE CurrentCellLoop(_, _, _, _)
CurrentCellLoop(row, B, i, start_row) ==
    IF i > Len(B) THEN [start_row |-> start_row, next_cell_row |-> None]
    ELSE IF B[i] <= row THEN CurrentCellLoop(row, B, i + 1, Some(B[i]))
    ELSE [start_row |-> start_row, next_cell_row |-> Some(B[i])]

\* A variant that stops at an exact match as the end of the previous cell.
_get_current_cell_boundaries_strict(row, B) ==
    LET RECURSIVE L(_, _)
        L(i, s) == IF i > Len(B) THEN [start_row |-> s, next_cell_row |-> None]
                   ELSE IF B[i] < row THEN L(i + 1, Some(B[i]))
                   ELSE [start_row |-> s, next_cell_row |-> Some(B[i])]
        r == L(1, None)
    IN  [raised   |-> r.start_row = None,
         start_row |-> r.start_row,
         end_row  |-> IF r.next_cell_row = None THEN None
                      ELSE Some(r.next_cell_row[1] - 1)]

\* A variant that returns the next boundary itself as the end row.
_get_current_cell_boundaries_no_minus(row, B) ==
    LET r == CurrentCellLoop(row, B, 1, None)
    IN  [raised   |-> r.start_row = None,
         start_row |-> r.start_row,
         end_row  |-> r.next_cell_row]

\* _get_current_cell_boundaries: raised is the UnboundLocalError of
\* "return start_row, end_row" when no boundary was <= current_row.
_get_current_cell_boundaries(row, B) ==
    LET r == CurrentCellLoop(row, B, 1, None)
    IN  [raised   |-> r.start_row = None,
         start_row |-> r.start_row,
         end_row  |-> IF r.next_cell_row = None THEN None
                      ELSE Some(r.next_cell_row[1] - 1)]

RECURSIVE NextCellLoop(_, _, _)
NextCellLoop(row, B, i) ==
    IF i > Len(B) THEN None
    ELSE IF B[i] > row THEN Some(B[i])
    ELSE NextCellLoop(row, B, i + 1)

\* A variant that also accepts the boundary the cursor is on.
_get_next_cell_ge(row, B) ==
    LET RECURSIVE L(_)
        L(i) == IF i > Len(B) THEN None
                ELSE IF B[i] >= row THEN Some(B[i])
                ELSE L(i + 1)
        n == L(1)
    IN  IF n = None THEN row ELSE n[1]

_get_next_cell(row, B) ==
    LET next_cell_row == NextCellLoop(row, B, 1)
    IN  IF next_cell_row = None THEN row ELSE next_cell_row[1]

RECURSIVE PrevCellLoop(_, _, _, _)
PrevCellLoop(row, B, i, prev_cell_row) ==
    IF i > Len(B) THEN prev_cell_row
    ELSE IF B[i] < row THEN PrevCellLoop(row, B, i + 1, Some(B[i]))
    ELSE prev_cell_row

\* A variant that keeps the first boundary below the row, not the last.
_get_prev_cell_first(row, B) ==
    IF Len(B) > 0 /\ B[1] < row THEN B[1] ELSE row

_get_prev_cell(row, B) ==
    LET prev_cell_row == PrevCellLoop(row, B, 1, None)
    IN  IF prev_cell_row = None THEN row ELSE prev_cell_row[1]

----------------------------------------------------------------------------
(* Boundary detection *)

\* "tag in line" (a literal substring test) or, with use_regex, re.search(tag,
\* line) for patterns made of literal characters and "." (any character).
CharMatches(pc, lc, use_regex) == pc = lc \/ (use_regex /\ pc = DOT)

RECURSIVE MatchAt(_, _, _, _, _)
MatchAt(tag, line, pos, k, use_regex) ==
    IF k > Len(tag) THEN TRUE
    ELSE IF pos + k > Len(line) THEN FALSE
    ELSE IF CharMatches(tag[k], line[pos + k], use_regex)
         THEN MatchAt(tag, line, pos, k + 1, use_regex)
         ELSE FALSE

RECURSIVE SearchFrom(_, _, _, _)
SearchFrom(tag, line, pos, use_regex) ==
    IF pos + Len(tag) > Len(line) THEN FALSE
    ELSE IF MatchAt(tag, line, pos, 1, use_regex) THEN TRUE
    ELSE SearchFrom(tag, line, pos + 1, use_regex)

TagFound(tag, line, use_regex) == SearchFrom(tag, line, 0, use_regex)

\* The inner "for tag in tags" loop with its break: TRUE when a tag is found.
RECURSIVE AnyTagFound(_, _, _, _)
AnyTagFound(tags, j, line, use_regex) ==
    IF j > Len(tags) THEN FALSE
    ELSE IF TagFound(tags[j], line, use_regex) THEN TRUE
    ELSE AnyTagFound(tags, j + 1, line, use_regex)

\* g:ipython_cell_tag is a string or a list: "if not isinstance(tags, list)".
\* The option is [is_list, str, list]: str when it is a string, list otherwise.
TagList(tags) == IF tags.is_list THEN tags.list ELSE << tags.str >>

\* The rows of "for i, line in enumerate(buffer)" from row lo to row hi, the
\* range taken by halves.
RECURSIVE RowsWithTagFrom(_, _, _, _, _)
RowsWithTagFrom(buf, lo, hi, tags, use_regex) ==
    IF lo > hi THEN << >>
    ELSE IF lo = hi
    THEN (IF AnyTagFound(tags, 1, buf[lo], use_regex) THEN << lo >> ELSE << >>)
    ELSE RowsWithTagFrom(buf, lo, (lo + hi) \div 2, tags, use_regex)
         \o RowsWithTagFrom(buf, (lo + hi) \div 2 + 1, hi, tags, use_regex)

_get_rows_with_tag(buf, tags, use_regex) ==
    RowsWithTagFrom(buf, 1, Len(buf), TagList(tags), use_regex)

\* buffer.mark(m) is modelled by marks[m]: None, or Some(row) with row 0 for
\* a mark that is not set.
RECURSIVE RowsWithMarksFrom(_, _, _)
RowsWithMarksFrom(marks, valid_marks, i) ==
    IF i > Len(valid_marks) THEN << >>
    ELSE LET mark_loc == marks[valid_marks[i]]
         IN  (IF mark_loc # None /\ mark_loc[1] # 0 THEN << mark_loc[1] >> ELSE << >>)
             \o RowsWithMarksFrom(marks, valid_marks, i + 1)

_get_rows_with_marks(marks, valid_marks) == RowsWithMarksFrom(marks, valid_marks, 1)

UseRegex(c) == c.regex \in { "1", "y", "yes", "t", "true" }

\* A variant that returns the rows as collected, without sorted(set(...)).
_get_cell_boundaries_unsorted(buf, c, auto_include_first_line) ==
    LET rows == IF c.delimit_cells_by = "marks"
                THEN _get_rows_with_marks(c.marks, c.valid_marks)
                ELSE _get_rows_with_tag(buf, c.tag, UseRegex(c))
    IN  IF c.delimit_cells_by \notin { "marks", "tags" }
        THEN [ok |-> FALSE, rows |-> << >>]
        ELSE [ok |-> TRUE,
              rows |-> IF auto_include_first_line THEN Append(rows, 1) ELSE rows]

\* _get_cell_boundaries: ok is FALSE when the function reports the invalid
\* option and returns None.
_get_cell_boundaries(buf, c, auto_include_first_line) ==
    LET rows == IF c.delimit_cells_by = "marks"
                THEN _get_rows_with_marks(c.marks, c.valid_marks)
                ELSE _get_rows_with_tag(buf, c.tag, UseRegex(c))
        all == IF auto_include_first_line THEN Append(rows, 1) ELSE rows
    IN  IF c.delimit_cells_by \notin { "marks", "tags" }
        THEN [ok |-> FALSE, rows |-> << >>]
        ELSE [ok |-> TRUE, rows |-> SetToSortedSeq(SeqToSet(all))]

----------------------------------------------------------------------------
(* Transport encoder: filetertext *)

IsBreak(c) == c \in { CR, LF }

\* \s of a str pattern, over the characters of the model (tab, LF, VT, FF, CR,
\* space).
IsSpace(c) == c \in { 9, LF, 11, 12, CR, SP }

\* re.sub("[\r\n]+$", "", text): the leftmost match starts the maximal run of
\* line breaks that reaches the end of the text, and the greedy + takes it all.
RECURSIVE StripTrailingBreaks(_)
StripTrailingBreaks(t) ==
    IF Len(t) > 0 /\ IsBreak(Last(t)) THEN StripTrailingBreaks(Front(t)) ELSE t

\* A variant that replaces every line break by "\n" without collapsing runs.
CollapseBreaks_each(t) == [ i \in 1..Len(t) |-> IF IsBreak(t[i]) THEN LF ELSE t[i] ]

\* re.sub("[\r\n]+", "\n", text): every maximal run becomes one "\n". What
\* the positions lo..hi of t contribute, the range taken by halves.
RECURSIVE CollapseFrom(_, _, _)
CollapseFrom(t, lo, hi) ==
    IF lo > hi THEN << >>
    ELSE IF lo = hi
    THEN IF ~IsBreak(t[lo]) THEN << t[lo] >>
         ELSE IF lo > 1 /\ IsBreak(t[lo - 1]) THEN << >>
         ELSE << LF >>
    ELSE CollapseFrom(t, lo, (lo + hi) \div 2)
         \o CollapseFrom(t, (lo + hi) \div 2 + 1, hi)

CollapseBreaks(t) == CollapseFrom(t, 1, Len(t))

\* re.sub("[\r\n]", "\n\x15", text)
RECURSIVE InsertKillFrom(_, _, _)
InsertKillFrom(t, lo, hi) ==
    IF lo > hi THEN << >>
    ELSE IF lo = hi
    THEN (IF IsBreak(t[lo]) THEN << LF, CTRL_U >> ELSE << t[lo] >>)
    ELSE InsertKillFrom(t, lo, (lo + hi) \div 2)
         \o InsertKillFrom(t, (lo + hi) \div 2 + 1, hi)

InsertKill(t) == InsertKillFrom(t, 1, Len(t))

\* The end of the greedy ".*" that starts after position p: "." matches every
\* character but "\n".
RECURSIVE DotStarEnd(_, _)
DotStarEnd(t, e) ==
    IF e < Len(t) /\ t[e + 1] # LF THEN DotStarEnd(t, e + 1) ELSE e

\* "$" without re.MULTILINE: the end of the text, or just before a final "\n".
AtDollar(t, e) == e = Len(t) \/ (e = Len(t) - 1 /\ t[Len(t)] = LF)

\* ml = re.findall("[\r\n](.*)$", text); ml[0] when there is a match: the
\* group of the leftmost match from position p on, None when ml is empty.
FirstLastLineMatch(t, p) ==
    LET starts == { q \in p..Len(t) :
                      IsBreak(t[q]) /\ AtDollar(t, DotStarEnd(t, q)) }
    IN  IF starts = {} THEN None
        ELSE LET q == CHOOSE x \in starts : \A y \in starts : x <= y
             IN  Some(SubSeq(t, q + 1, DotStarEnd(t, q)))

\* len(re.findall("^[\s\x15]", lastln)) > 0
StartsBlank(lastln) ==
    Len(lastln) > 0 /\ (IsSpace(lastln[1]) \/ lastln[1] = CTRL_U)

filetertext(t) ==
    LET t1 == StripTrailingBreaks(t)
        t2 == CollapseBreaks(t1)
        t3 == InsertKill(t2)
        ml == FirstLastLineMatch(t3, 1)
        lastlnstartblank == ml # None /\ StartsBlank(ml[1])
    IN  IF lastlnstartblank THEN Append(t3, CR) ELSE t3

----------------------------------------------------------------------------
(* Socket transport: is_socket_closed and sendterm_by_socket *)

\* Connection states of the socket behind termsock: "unconnected" (a fresh
\* socket.socket()), "open", "eof" (the peer shut down in order), "reset".

\* sock.recv(16, MSG_DONTWAIT | MSG_PEEK): the bytes read ("data", "empty") or
\* the exception raised. The peer of this protocol never writes, so an open
\* socket has nothing to read.
RecvPeek(sock) ==
    CASE sock = "open"        -> "BlockingIOError"
      [] sock = "eof"         -> "empty"
      [] sock = "reset"       -> "ConnectionResetError"
      [] sock = "unconnected" -> "OSError"

\* A variant whose last handler reports the socket open.
is_socket_closed_lenient(sock) ==
    LET r == RecvPeek(sock)
    IN  CASE r = "empty"                -> TRUE
          [] r = "data"                 -> FALSE
          [] r = "BlockingIOError"      -> FALSE
          [] r = "ConnectionResetError" -> TRUE
          [] OTHER                      -> FALSE

is_socket_closed(sock) ==
    LET r == RecvPeek(sock)
    IN  CASE r = "empty"                -> TRUE
          [] r = "data"                 -> FALSE
          [] r = "BlockingIOError"      -> FALSE
          [] r = "ConnectionResetError" -> TRUE
          [] OTHER                      -> TRUE

\* str.encode("utf_8") of one code point; a lone surrogate cannot be encoded.
IsSurrogate(cp) == cp >= 55296 /\ cp <= 57343

Utf8Char(cp) ==
    IF cp < 128 THEN << cp >>
    ELSE IF cp < 2048 THEN << 192 + (cp \div 64), 128 + (cp % 64) >>
    ELSE << 224 + (cp \div 4096), 128 + ((cp \div 64) % 64), 128 + (cp % 64) >>

RECURSIVE Utf8From(_, _)
Utf8From(string, i) ==
    IF i > Len(string) THEN << >>
    ELSE Utf8Char(string[i]) \o Utf8From(string, i + 1)

Utf8(string) == Utf8From(string, 1)

EncodeRaises(string) == \E i \in 1..Len(string) : IsSurrogate(string[i])

\* A variant that always appends the terminator.
NeedsTerminator_always(string) == TRUE

\* string[-1] != "\0"
NeedsTerminator(string) == Last(string) # NUL

\* "except Exception": the classes the handler of sendterm_by_socket catches.
ExceptionClasses ==
    { "OSError", "ConnectionRefusedError", "BrokenPipeError",
      "ConnectionResetError", "UnicodeEncodeError" }

Caught(exc) == exc \in ExceptionClasses

ConnectErrors == { "ConnectionRefusedError", "OSError" }
SendErrors == { "BrokenPipeError", "ConnectionResetError" }

\* What the body of sendterm_by_socket does with `string` on socket `sock`,
\* given what connect and the two sends would raise (None: nothing).
\* calls: the socket calls made, in order; wire: the bytes written; exc: the
\* exception raised inside try, if any; closed: what is_socket_closed said.
SendOutcome(string, sock, c_exc, s1_exc, s2_exc) ==
    LET closed == is_socket_closed(sock)
        check  == << "is_socket_closed" >>
        conn   == IF closed THEN << "connect" >> ELSE << >>
        sock2  == IF closed THEN "open" ELSE sock
        \* a send on a socket that is not connected cannot succeed
        e1     == IF sock2 # "open" /\ s1_exc = None
                  THEN Some("BrokenPipeError") ELSE s1_exc
        bytes  == Utf8(string)
    IN  IF Len(string) <= 0
        THEN [termsock |-> sock, calls |-> << >>, wire |-> << >>,
              exc |-> None, closed |-> FALSE]
        ELSE IF closed /\ c_exc # None
        THEN [termsock |-> "unconnected", calls |-> check \o conn,
              wire |-> << >>, exc |-> c_exc, closed |-> closed]
        ELSE IF EncodeRaises(string)
        THEN [termsock |-> sock2, calls |-> check \o conn,
              wire |-> << >>, exc |-> Some("UnicodeEncodeError"), closed |-> closed]
        ELSE IF e1 # None
        THEN [termsock |-> "reset", calls |-> check \o conn \o << "send" >>,
              wire |-> << >>, exc |-> e1, closed |-> closed]
        ELSE IF ~NeedsTerminator(string)
        THEN [termsock |-> sock2, calls |-> check \o conn \o << "send" >>,
              wire |-> bytes, exc |-> None, closed |-> closed]
        ELSE IF s2_exc # None
        THEN [termsock |-> "reset", calls |-> check \o conn \o << "send", "send" >>,
              wire |-> bytes, exc |-> s2_exc, closed |-> closed]
        ELSE [termsock |-> sock2, calls |-> check \o conn \o << "send", "send" >>,
              wire |-> bytes \o Utf8(<< NUL >>), exc |-> None, closed |-> closed]

----------------------------------------------------------------------------
(* execute_cell *)

CTRL_C == 3
CTRL_N == 14
CTRL_O == 15
ChunkSize == 25

\* The texts the handler sends as they are.
EmptyCellComment == << 35, 32, 101, 109, 112, 116, 121, 32, 99, 101, 108, 108 >>
CellZeroHeader == << 35, 32, 99, 101, 108, 108, 32, 48 >>
CpasteBegin == << 37, 99, 112, 97, 115, 116, 101, 32, 45, 113 >>
CpasteEnd == << 45, 45 >>

\* "__file__ = '{}'\n".format(f)
FileAssignment(f) ==
    << 95, 95, 102, 105, 108, 101, 95, 95, 32, 61, 32, 39 >> \o f \o << 39, LF >>

RECURSIVE JoinFrom(_, _, _, _)
JoinFrom(lines, lo, hi, sep) ==
    IF lo > hi THEN << >>
    ELSE IF lo = hi THEN lines[lo]
    ELSE JoinFrom(lines, lo, (lo + hi) \div 2, sep) \o sep
         \o JoinFrom(lines, (lo + hi) \div 2 + 1, hi, sep)

Join(lines, sep) == JoinFrom(lines, 1, Len(lines), sep)

\* buffer[lo:hi] with Python's 0-based, clipped slice bounds.
Slice(buf, lo, hi) ==
    LET h == IF hi > Len(buf) THEN Len(buf) ELSE hi
    IN  IF lo >= h THEN << >> ELSE SubSeq(buf, lo + 1, h)

\* re.match(r"[\t ]*", first_row).group()
RECURSIVE IndentLen(_, _)
IndentLen(line, n) ==
    IF n < Len(line) /\ line[n + 1] \in { 9, SP } THEN IndentLen(line, n + 1) ELSE n

Indentation(line) == SubSeq(line, 1, IndentLen(line, 0))

\* str.splitlines(): the line boundaries of Python, "\r\n" counting as one.
IsLineBoundary(c) == c \in { LF, 11, 12, CR, 28, 29, 30, 133, 8232, 8233 }

\* Two lists of pieces side by side: the last piece of the one and the first
\* of the other are one piece.
Glue(l, r) == Front(l) \o << Last(l) \o Head(r) >> \o Tail(r)

\* The pieces the line boundaries cut t[lo..hi] into, the range taken by
\* halves: a boundary ends a piece and starts the next one, the "\n" of
\* "\r\n" does nothing more.
RECURSIVE SplitLinesFrom(_, _, _)
SplitLinesFrom(t, lo, hi) ==
    IF lo > hi THEN << << >> >>
    ELSE IF lo = hi
    THEN IF ~IsLineBoundary(t[lo]) THEN << << t[lo] >> >>
         ELSE IF t[lo] = LF /\ lo > 1 /\ t[lo - 1] = CR THEN << << >> >>
         ELSE << << >>, << >> >>
    ELSE Glue(SplitLinesFrom(t, lo, (lo + hi) \div 2),
              SplitLinesFrom(t, (lo + hi) \div 2 + 1, hi))

\* No line is reported for what follows the last boundary when it is empty.
SplitLines(t) ==
    LET pieces == SplitLinesFrom(t, 1, Len(t))
    IN  IF Last(pieces) = << >> THEN Front(pieces) ELSE pieces

\* A variant that takes one line more than the loop removes.
NextChunk_overlap(lines) == Slice(lines, 0, ChunkSize + 1)

\* chunk = remaining_chunks[:25]
NextChunk(lines) == Slice(lines, 0, ChunkSize)

\* remaining_chunks[:25] = []
RestChunks(lines) == Slice(lines, ChunkSize, Len(lines))

\* The while loop of the %cpaste path: the strings handed to _slimesend.
RECURSIVE Chunks(_)
Chunks(lines) ==
    IF Len(lines) = 0 THEN << >>
    ELSE << Join(NextChunk(lines), << LF >>) >> \o Chunks(RestChunks(lines))

\* _slimesend / _slimesend0 through sendterm_new: nothing for an empty string
\* or when g:term_sendsocket is "1", else one transmission to the terminal.
SlimeSend(c, string, addreturn) ==
    IF Len(string) = 0 \/ c.term_sendsocket = "1" THEN << >>
    ELSE << [string |-> string, addreturn |-> addreturn] >>

\* _slimesend of each string of a list, in order.
RECURSIVE SlimeSendAll(_, _)
SlimeSendAll(c, strings) ==
    IF Len(strings) = 0 THEN << >>
    ELSE SlimeSend(c, strings[1], TRUE) \o SlimeSendAll(c, Tail(strings))

_clear_prompt(c) ==
    (IF c.send_ctrl_u # "0" THEN SlimeSend(c, << CTRL_U >>, FALSE) ELSE << >>)
    \o (IF c.send_ctrl_c # "0" THEN SlimeSend(c, << CTRL_C >>, FALSE) ELSE << >>)

\* cell_is_empty = not cell
CellIsEmpty(cell) == Len(cell) = 0

\* execute_cell up to the point where the cell is handed to a transport.
\* raised: an exception left the handler (TypeError on "1 in None", IndexError
\* on buffer[start_row-1]); term: the transmissions to the terminal, in order;
\* clipboard: the text copied, if any; socket: the text given to
\* sendterm_by_socket, if any; cell: the joined cell text; input: the text
\* given to filetertext and payload: its result, if it ran; head: the
\* transmissions made before the cell is handed over (_clear_prompt and the
\* cell header).
ExecuteCell(buf, row, c, use_cpaste) ==
    LET got   == _get_cell_boundaries(buf, c, FALSE)
        first_line_contains_cell_header == 1 \in SeqToSet(got.rows)
        bnds  == IF first_line_contains_cell_header THEN got.rows
                 ELSE << 1 >> \o got.rows
        cur   == _get_current_cell_boundaries(row, bnds)
        start_row == cur.start_row[1]
        end_row == IF cur.end_row = None THEN Len(buf) ELSE cur.end_row[1]
        tags  == c.delimit_cells_by = "tags"
        cell_header == IF start_row = 1 /\ ~first_line_contains_cell_header
                       THEN CellZeroHeader ELSE buf[start_row]
        t0    == _clear_prompt(c)
        t1    == IF tags /\ c.send_cell_headers # "0"
                 THEN SlimeSend(c, cell_header, FALSE)
                      \o SlimeSend(c, << CTRL_O >>, FALSE)
                      \o SlimeSend(c, << CTRL_N >>, FALSE)
                 ELSE << >>
        start2 == IF tags /\ (first_line_contains_cell_header \/ start_row # 1)
                  THEN start_row + 1 ELSE start_row
        cell  == Join(Slice(buf, start2 - 1, end_row), << LF >>)
        cell_is_empty == CellIsEmpty(cell)
        upd   == c.update_file_variable # "0"
        index_error == upd /\ start2 > Len(buf)
        cell2 == IF upd /\ ~index_error
                 THEN Indentation(buf[start2]) \o FileAssignment(c.filepath) \o cell
                 ELSE cell
        enc   == filetertext(cell2)
        base  == [raised |-> FALSE, term |-> t0 \o t1, clipboard |-> None,
                  socket |-> None, cell |-> cell, input |-> cell2,
                  payload |-> None, head |-> t0 \o t1]
    IN  IF ~got.ok
        THEN [raised |-> TRUE, term |-> << >>, clipboard |-> None,
              socket |-> None, cell |-> << >>, input |-> << >>,
              payload |-> None, head |-> << >>]
        ELSE IF c.term_sendsocket = "1"
        THEN [base EXCEPT !.socket = Some(cell)]
        ELSE IF index_error
        THEN [base EXCEPT !.raised = TRUE]
        ELSE IF ~use_cpaste
        THEN IF cell_is_empty
             THEN [base EXCEPT !.payload = Some(enc),
                       !.term = @ \o SlimeSend(c, EmptyCellComment, TRUE)]
             ELSE [base EXCEPT !.payload = Some(enc), !.clipboard = Some(enc),
                       !.term = @ \o SlimeSend(c, c.cell_command, TRUE)]
        ELSE IF c.slime_python_ipython
        THEN [base EXCEPT !.payload = Some(enc),
                  !.term = @ \o SlimeSend(c, enc, TRUE)]
        ELSE [base EXCEPT !.payload = Some(enc),
                  !.term = @ \o SlimeSend(c, CpasteBegin, TRUE)
                             \o SlimeSendAll(c, Chunks(SplitLines(enc)))
                             \o SlimeSend(c, CpasteEnd, TRUE)]

----------------------------------------------------------------------------
(* State shared by the specifications *)

NoRet == [none |-> TRUE]

DefaultCfg ==
    [ delimit_cells_by |-> "tags",
      tag |-> [is_list |-> FALSE, str |-> << HASH >>, list |-> << >>],
      regex |-> "0",
      valid_marks |-> << "a", "b" >>,
      marks |-> [ m \in { "a", "b" } |-> None ],
      send_cell_headers |-> "0",
      term_sendsocket |-> "0",
      update_file_variable |-> "0",
      slime_python_ipython |-> FALSE,
      send_ctrl_u |-> "1",
      send_ctrl_c |-> "1",
      filepath |-> << >>,
      cell_command |-> << 37, 112, 97, 115, 116, 101, 32, 45, 113 >> ]

\* The state right after the module is loaded: termsock = socket.socket().
Loaded ==
    /\ op = "init"
    /\ current_row = 1
    /\ cell_boundaries = << 1 >>
    /\ ret = NoRet
    /\ buffer = << << >> >>
    /\ cfg = DefaultCfg
    /\ text = << >>
    /\ payload = None
    /\ term = << >>
    /\ clipboard = None
    /\ termsock = "unconnected"
    /\ wire = << >>
    /\ trace = << >>
    /\ remaining_chunks = << >>
    /\ exec_pc = "idle"

\* All sequences over S of length at most n.
SeqsUpTo(S, n) == UNION { [ 1..k -> S ] : k \in 0..n }

----------------------------------------------------------------------------
(* Specification of the segmenter queries: every sorted, duplicate-free       *)
(* boundary list over 1..MaxRow and every cursor row.                         *)

BoundaryLists == { SetToSortedSeq(S) : S \in SUBSET (1..MaxRow) }

InitSeg ==
    /\ op = "init"
    /\ current_row \in 1..MaxRow
    /\ cell_boundaries \in BoundaryLists
    /\ ret = NoRet
    /\ buffer = << << >> >>
    /\ cfg = DefaultCfg
    /\ text = << >>
    /\ payload = None
    /\ term = << >>
    /\ clipboard = None
    /\ termsock = "unconnected"
    /\ wire = << >>
    /\ trace = << >>
    /\ remaining_chunks = << >>
    /\ exec_pc = "idle"

\* A call of _get_current_cell_boundaries(current_row, cell_boundaries).
CurrentCell ==
    /\ op' = "_get_current_cell_boundaries"
    /\ ret' = [row |-> current_row,
               value |-> _get_current_cell_boundaries(current_row, cell_boundaries)]
    /\ UNCHANGED << current_row, cell_boundaries, buffer, cfg, text, payload,
                    term, clipboard, termsock, wire, trace,
                    remaining_chunks, exec_pc >>

\* jump_next_cell: cell_boundaries is the list _get_cell_boundaries returned.
JumpNextCell ==
    LET next_cell_row == _get_next_cell(current_row, cell_boundaries)
    IN  /\ op' = "jump_next_cell"
        /\ ret' = [row |-> current_row, value |-> next_cell_row]
        /\ current_row' = IF next_cell_row # current_row THEN next_cell_row
                          ELSE current_row
        /\ UNCHANGED << cell_boundaries, buffer, cfg, text, payload, term,
                        clipboard, termsock, wire, trace,
                        remaining_chunks, exec_pc >>

\* jump_prev_cell
JumpPrevCell ==
    LET prev_cell_row == _get_prev_cell(current_row, cell_boundaries)
    IN  /\ op' = "jump_prev_cell"
        /\ ret' = [row |-> current_row, value |-> prev_cell_row]
        /\ current_row' = IF prev_cell_row # current_row THEN prev_cell_row
                          ELSE current_row
        /\ UNCHANGED << cell_boundaries, buffer, cfg, text, payload, term,
                        clipboard, termsock, wire, trace,
                        remaining_chunks, exec_pc >>

NextSeg == CurrentCell \/ JumpNextCell \/ JumpPrevCell

SpecSeg == InitSeg /\ [][NextSeg]_vars

----------------------------------------------------------------------------
(* Claims about the segmenter queries (SpecSeg) *)

BSet == SeqToSet(cell_boundaries)

HasBoundaryAtOrBelow(r) == \E b \in BSet : b <= r

\* The start row the call returned is a boundary, and the greatest one <= r.
StartRowIsGreatestAtOrBelow(r, v) ==
    /\ ~v.raised
    /\ v.start_row # None
    /\ v.start_row[1] \in BSet
    /\ v.start_row[1] <= r
    /\ \A b \in BSet : b <= r => b <= v.start_row[1]
    /\ (r \in BSet => v.start_row[1] = r)

\* C1 as stated: for all boundary sets B and all rows r,
\* _get_current_cell_boundaries returns a start_row that is a member of B and
\* the greatest member <= r (r itself when r is a boundary).
C1_StartRowForEveryBoundarySet ==
    op = "_get_current_cell_boundaries" =>
        StartRowIsGreatestAtOrBelow(ret.row, ret.value)

\* C1 amended: for all sorted boundary sets B that have a boundary <= r,
\* _get_current_cell_boundaries returns a start_row that is a member of B and
\* the greatest member <= r (r itself when r is a boundary).
C1_StartRowIsGreatestBoundary ==
    (op = "_get_current_cell_boundaries" /\ HasBoundaryAtOrBelow(ret.row)) =>
        StartRowIsGreatestAtOrBelow(ret.row, ret.value)

\* The call was made on a boundary that has another boundary below it.
C1_Witness ==
    /\ op = "_get_current_cell_boundaries"
    /\ ret.row \in BSet
    /\ \E b \in BSet : b < ret.row
    /\ ret.value.start_row = Some(ret.row)

\* C2: for a sorted duplicate-free B with a boundary <= row, end_row is the
\* smallest boundary > row minus one, or None when no boundary is > row; and
\* when end_row is concrete, 1 <= start_row <= row <= end_row.
C2_EndRowAndRange ==
    (op = "_get_current_cell_boundaries" /\ HasBoundaryAtOrBelow(ret.row)) =>
        LET r == ret.row
            v == ret.value
            above == { b \in BSet : b > r }
        IN  /\ (above = {} => v.end_row = None)
            /\ (above # {} =>
                  /\ v.end_row # None
                  /\ v.end_row[1] + 1 \in above
                  /\ \A b \in above : v.end_row[1] + 1 <= b)
            /\ (v.end_row # None =>
                  /\ 1 <= v.start_row[1]
                  /\ v.start_row[1] <= r
                  /\ r <= v.end_row[1])

\* The row is strictly inside a cell that has a following boundary.
C2_Witness ==
    /\ op = "_get_current_cell_boundaries"
    /\ ret.value.end_row # None
    /\ ret.value.start_row # None
    /\ ret.value.start_row[1] < ret.row
    /\ ret.row < ret.value.end_row[1]

\* C3: _get_next_cell returns the smallest boundary > r, or r when no
\* boundary is greater; from the last boundary (or below no boundary at all)
\* jump_next_cell returns the same row and leaves the cursor there.
C3_NextCell ==
    op = "jump_next_cell" =>
        LET r == ret.row
            above == { b \in BSet : b > r }
        IN  /\ (above # {} => ret.value \in above /\ \A b \in above : ret.value <= b)
            /\ (above = {} => ret.value = r)
            /\ current_row = ret.value
            /\ ((Len(cell_boundaries) > 0 /\ r = Last(cell_boundaries)) =>
                    ret.value = r /\ current_row = r)

\* jump_next_cell ran with the cursor on the last of several boundaries.
C3_Witness ==
    /\ op = "jump_next_cell"
    /\ Len(cell_boundaries) >= 2
    /\ ret.row = Last(cell_boundaries)
    /\ ret.value = ret.row
    /\ current_row = ret.row

\* C4: _get_prev_cell returns the greatest boundary < r: the start of the
\* cell containing r when r is not on a boundary, the start of the previous
\* cell when r is on one; r unchanged when no boundary is < r.
C4_PrevCell ==
    op = "jump_prev_cell" =>
        LET r == ret.row
            below == { b \in BSet : b < r }
            atOrBelow == { b \in BSet : b <= r }
        IN  /\ (below # {} => ret.value \in below /\ \A b \in below : b <= ret.value)
            /\ (below = {} => ret.value = r)
            /\ ((r \notin BSet /\ below # {}) =>
                    ret.value \in atOrBelow /\ \A b \in atOrBelow : b <= ret.value)
            /\ ((r \in BSet /\ below # {}) => ret.value < r)
            /\ current_row = ret.value

\* jump_prev_cell ran on a boundary with two boundaries below it.
C4_Witness ==
    /\ op = "jump_prev_cell"
    /\ ret.row \in BSet
    /\ Cardinality({ b \in BSet : b < ret.row }) >= 2
    /\ ret.value < ret.row

----------------------------------------------------------------------------
(* Specification of boundary detection: buffers of at most MaxLines lines     *)
(* (and the five-line buffer x, tag, x, tag, x), tag lists of at most two     *)
(* tags, literal and regex matching.                                          *)

LineTexts == { << >>, << 97 >>, << HASH >>, << 97, HASH >>, << SP, 97 >> }

TagTexts == { << HASH >>, << DOT >>, << 97, HASH >> }

TagOptions ==
    { [is_list |-> FALSE, str |-> t, list |-> << >>] : t \in TagTexts }
    \cup { [is_list |-> TRUE, str |-> << >>, list |-> << >>] }
    \cup { [is_list |-> TRUE, str |-> << >>, list |-> << t >>] : t \in TagTexts }
    \cup { [is_list |-> TRUE, str |-> << >>, list |-> << t, u >>] :
             t \in TagTexts, u \in TagTexts }

ScenarioBuffer == << << 97 >>, << HASH >>, << 97 >>, << HASH >>, << 97 >> >>

Buffers == (SeqsUpTo(LineTexts, MaxLines) \ { << >> }) \cup { ScenarioBuffer }

\* The positions buffer.mark() can report for a buffer of n lines.
MarkOptions(n) ==
    { [ m \in { "a", "b" } |-> IF m = "a" THEN x ELSE y ] :
        x \in { None, Some(0), Some(n) }, y \in { Some(0), Some(1) } }

InitTags ==
    /\ op = "init"
    /\ current_row = 1
    /\ cell_boundaries = << >>
    /\ ret = NoRet
    /\ buffer \in Buffers
    /\ \E d \in { "tags", "marks", "cells" } :
         \/ /\ d = "tags"
            /\ \E t \in TagOptions, r \in { "0", "1", "yes" } :
                 cfg = [DefaultCfg EXCEPT !.tag = t, !.regex = r]
         \/ /\ d = "marks"
            /\ \E mk \in MarkOptions(Len(buffer)) :
                 cfg = [DefaultCfg EXCEPT !.delimit_cells_by = d, !.marks = mk]
         \/ /\ d = "cells"
            /\ cfg = [DefaultCfg EXCEPT !.delimit_cells_by = d]
    /\ text = << >>
    /\ payload = None
    /\ term = << >>
    /\ clipboard = None
    /\ termsock = "unconnected"
    /\ wire = << >>
    /\ trace = << >>
    /\ remaining_chunks = << >>
    /\ exec_pc = "idle"

\* A call of _get_cell_boundaries(auto_include_first_line).
GetCellBoundaries ==
    \E auto_include_first_line \in BOOLEAN :
        /\ op' = "_get_cell_boundaries"
        /\ ret' = [auto |-> auto_include_first_line,
                   value |-> _get_cell_boundaries(buffer, cfg, auto_include_first_line)]
        /\ cell_boundaries' = ret'.value.rows
        /\ UNCHANGED << current_row, buffer, cfg, text, payload, term,
                        clipboard, termsock, wire, trace,
                        remaining_chunks, exec_pc >>

NextTags == GetCellBoundaries

SpecTags == InitTags /\ [][NextTags]_vars

----------------------------------------------------------------------------
(* Claims about boundary detection (SpecTags) *)

\* The tag occurs in the line: at some offset every character of the tag
\* equals the line's (or is "." under regex matching).
Occurs(tag, line, rx) ==
    \E off \in 0..Len(line) :
        /\ off + Len(tag) <= Len(line)
        /\ \A k \in 1..Len(tag) : line[off + k] = tag[k] \/ (rx /\ tag[k] = DOT)

ConfiguredTags ==
    IF cfg.tag.is_list THEN SeqToSet(cfg.tag.list) ELSE { cfg.tag.str }

MatchingRows ==
    { i \in 1..Len(buffer) :
        \E tag \in ConfiguredTags :
            Occurs(tag, buffer[i], cfg.regex \in { "1", "y", "yes", "t", "true" }) }

\* C5: under Tags, _get_cell_boundaries returns exactly the strictly
\* ascending, duplicate-free list of the 1-indexed numbers of the lines that
\* match at least one tag, with line 1 added when auto_include_first_line is
\* true; a line matching several tags appears once.
C5_TagBoundaries ==
    (op = "_get_cell_boundaries" /\ cfg.delimit_cells_by = "tags") =>
        /\ ret.value.ok
        /\ IsStrictlyAscending(ret.value.rows)
        /\ SeqToSet(ret.value.rows) =
              MatchingRows \cup (IF ret.auto THEN { 1 } ELSE { })
        /\ Len(ret.value.rows) = Cardinality(SeqToSet(ret.value.rows))

\* The five-line scenario (x, tag, x, tag, x with the first line included)
\* gave 1, 2, 4.
C5_Witness ==
    /\ op = "_get_cell_boundaries"
    /\ cfg.delimit_cells_by = "tags"
    /\ buffer = ScenarioBuffer
    /\ cfg.tag = [is_list |-> TRUE, str |-> << >>, list |-> << << HASH >> >>]
    /\ ret.auto
    /\ ret.value.rows = << 1, 2, 4 >>

----------------------------------------------------------------------------
(* Specification of the encoder: every text of at most MaxTextLen characters  *)
(* over "a", space, "\n", "\r" and 0x15, and the two three-line texts.        *)

EncAlphabet == { 97, SP, LF, CR, CTRL_U }

\* "a\n  b\nc" and "a\n  b"
ScenarioPlainLast == << 97, LF, SP, SP, 98, LF, 99 >>
ScenarioIndentedLast == << 97, LF, SP, SP, 98 >>

EncTexts == SeqsUpTo(EncAlphabet, MaxTextLen)
            \cup { ScenarioPlainLast, ScenarioIndentedLast }

InitEnc ==
    /\ op = "init"
    /\ current_row = 1
    /\ cell_boundaries = << 1 >>
    /\ ret = NoRet
    /\ buffer = << << >> >>
    /\ cfg = DefaultCfg
    /\ text \in EncTexts
    /\ payload = None
    /\ term = << >>
    /\ clipboard = None
    /\ termsock = "unconnected"
    /\ wire = << >>
    /\ trace = << >>
    /\ remaining_chunks = << >>
    /\ exec_pc = "idle"

\* A call of filetertext(text).
Filetertext ==
    /\ op = "init"
    /\ op' = "filetertext"
    /\ payload' = Some(filetertext(text))
    /\ UNCHANGED << current_row, cell_boundaries, ret, buffer, cfg, text, term,
                    clipboard, termsock, wire, trace,
                    remaining_chunks, exec_pc >>

NextEnc == Filetertext

SpecEnc == InitEnc /\ [][NextEnc]_vars

----------------------------------------------------------------------------
(* Claims about the encoder (SpecEnc) *)

Count(t, c) == Cardinality({ i \in 1..Len(t) : t[i] = c })

\* The last line of a text: the characters after its last line break, the
\* trailing line breaks of the text set aside.
LastContentIndex(t) ==
    IF \E i \in 1..Len(t) : ~IsBreak(t[i])
    THEN CHOOSE i \in 1..Len(t) :
            ~IsBreak(t[i]) /\ \A j \in (i + 1)..Len(t) : IsBreak(t[j])
    ELSE 0

LastLineStart(t) ==
    LET e == LastContentIndex(t)
    IN  CHOOSE i \in 1..e : /\ \A j \in i..e : ~IsBreak(t[j])
                            /\ (i = 1 \/ IsBreak(t[i - 1]))

LastLineIsIndented(t) ==
    LastContentIndex(t) > 0 /\ IsSpace(t[LastLineStart(t)])

\* C6: filetertext appends exactly one trailing carriage return when the
\* original last line of the text begins with whitespace, and none when it
\* has no leading whitespace.
C6_TrailingSubmitIffIndented ==
    op = "filetertext" =>
        LET p == payload[1]
        IN  /\ (LastLineIsIndented(text) =>
                    Len(p) > 0 /\ Last(p) = CR /\ Count(p, CR) = 1)
            /\ (~LastLineIsIndented(text) => Count(p, CR) = 0)

\* The payload without the carriage return filetertext may have appended.
Body(p) == IF Len(p) > 0 /\ Last(p) = CR THEN Front(p) ELSE p

\* The runs of line breaks of a text that do not reach its end.
InnerRuns(t) ==
    { i \in 1..Len(t) :
        /\ IsBreak(t[i])
        /\ (i = 1 \/ ~IsBreak(t[i - 1]))
        /\ \E j \in (i + 1)..Len(t) : ~IsBreak(t[j]) }

KillDirectiveShape(t, p) ==
    LET b == Body(p)
    IN  /\ (Len(b) > 0 => ~IsBreak(Last(b)))
        /\ \A i \in 1..(Len(b) - 1) : ~(IsBreak(b[i]) /\ IsBreak(b[i + 1]))
        /\ \A i \in 1..Len(b) :
              IsBreak(b[i]) => (i < Len(b) /\ b[i + 1] = CTRL_U)
        /\ \A i \in 1..Len(b) :
              b[i] = CTRL_U => (i > 1 /\ IsBreak(b[i - 1]))
        /\ Count(b, CTRL_U) - Count(t, CTRL_U) = Cardinality(InnerRuns(t))

\* C7 as stated: for every input text the payload, its trailing carriage
\* return set aside, has no trailing line breaks, no two consecutive line
\* breaks, one 0x15 right after every line break and nowhere else, and as
\* many inserted 0x15 as the input has line-break runs before its end.
C7_KillDirectivesForEveryText ==
    op = "filetertext" => KillDirectiveShape(text, payload[1])

\* C7 amended: the same, for every input text that holds no 0x15 of its own
\* (a 0x15 of the input is passed through where it stands).
C7_KillDirectives ==
    (op = "filetertext" /\ Count(text, CTRL_U) = 0) =>
        KillDirectiveShape(text, payload[1])

\* A text with a run of two line breaks inside and a trailing line break.
C7_Witness ==
    /\ op = "filetertext"
    /\ Count(text, CTRL_U) = 0
    /\ Len(text) >= 4
    /\ IsBreak(text[2]) /\ IsBreak(text[3]) /\ ~IsBreak(text[1])
    /\ IsBreak(Last(text))
    /\ Count(payload[1], CTRL_U) = 1

----------------------------------------------------------------------------
(* Specification of the socket transport: sends of every text of at most      *)
(* MaxMsgLen characters over NUL, "a", e-acute and a lone surrogate, with     *)
(* every outcome of connect and of the two writes, and the peer closing.      *)

MsgAlphabet == { NUL, 97, 233, 56448 }

Msgs == SeqsUpTo(MsgAlphabet, MaxMsgLen)

Raises(classes) == { None } \cup { Some(e) : e \in classes }

InitSock == Loaded

\* sendterm_by_socket(string)
SendtermBySocket ==
    \E string \in Msgs, c_exc \in Raises(ConnectErrors),
       s1_exc \in Raises(SendErrors), s2_exc \in Raises(SendErrors) :
      \E o \in { SendOutcome(string, termsock, c_exc, s1_exc, s2_exc) } :
        /\ op' = "sendterm_by_socket"
        /\ text' = string
        /\ termsock' = o.termsock
        /\ wire' = o.wire
        /\ trace' = o.calls
        /\ ret' = [exc |-> o.exc, closed |-> o.closed,
                   escaped |-> o.exc # None /\ ~Caught(o.exc[1])]
        /\ UNCHANGED << current_row, cell_boundaries, buffer, cfg, payload,
                        term, clipboard, remaining_chunks, exec_pc >>

\* The peer shuts the connection down, in order or with a reset.
PeerClose ==
    /\ termsock = "open"
    /\ termsock' \in { "eof", "reset" }
    /\ op' = "peer_close"
    /\ UNCHANGED << current_row, cell_boundaries, ret, buffer, cfg, text,
                    payload, term, clipboard, wire, trace,
                    remaining_chunks, exec_pc >>

NextSock == SendtermBySocket \/ PeerClose

SpecSock == InitSock /\ [][NextSock]_vars

----------------------------------------------------------------------------
(* Claims about the socket transport (SpecSock) *)

CountOf(calls, name) == Cardinality({ i \in 1..Len(calls) : calls[i] = name })

\* C9: for empty text nothing is written and no connection is checked or
\* opened; a send of non-empty text that does not fail writes the UTF-8 bytes
\* of the text, followed by one NUL byte when the text does not end with NUL
\* and by nothing when it does, so what it wrote ends with 0x00.
C9_NulTerminatedMessage ==
    op = "sendterm_by_socket" =>
        /\ (text = << >> => wire = << >> /\ trace = << >>)
        /\ ((text # << >> /\ ret.exc = None) =>
              /\ wire = Utf8(text) \o (IF Last(text) = NUL THEN << >> ELSE << NUL >>)
              /\ Last(wire) = NUL
              /\ \A i \in 1..Len(wire) : wire[i] \in 0..255)

\* A two-byte character followed by NUL went out with no extra byte.
C9_Witness ==
    /\ op = "sendterm_by_socket"
    /\ text = << 233, NUL >>
    /\ ret.exc = None
    /\ wire = << 195, 169, 0 >>

SendFailed ==
    /\ op = "sendterm_by_socket"
    /\ ret.exc # None
    /\ Len(trace) > 0
    /\ Last(trace) \in { "connect", "send" }
    /\ ret.exc[1] # "UnicodeEncodeError"

C10_SendShape ==
    (op = "sendterm_by_socket" /\ text # << >>) =>
        /\ CountOf(trace, "connect") <= 1
        /\ trace[1] = "is_socket_closed"
        /\ (CountOf(trace, "connect") = 1 <=> ret.closed)
        /\ \A i, j \in 1..Len(trace) :
              (trace[i] = "connect" /\ trace[j] = "send") => i < j
        /\ (SendFailed =>
              /\ (Last(trace) = "connect" => wire = << >> /\ CountOf(trace, "send") = 0)
              /\ (CountOf(trace, "send") = 1 => wire = << >>)
              /\ (CountOf(trace, "send") = 2 => wire = Utf8(text)))
        /\ ~ret.escaped

C10_NextSend ==
    /\ (op' = "sendterm_by_socket" /\ text' # << >>) =>
          (CountOf(trace', "connect") = 1 <=> is_socket_closed(termsock))
    /\ (SendFailed /\ op' = "sendterm_by_socket" /\ text' # << >>) =>
          (ret'.closed /\ CountOf(trace', "connect") = 1)

\* C10: each send of non-empty text makes at most one connection attempt,
\* makes it exactly when is_socket_closed reports the current socket closed,
\* and before any write; when the connect or a write fails the send writes
\* nothing further and no exception leaves it; and the next send finds the
\* socket closed and connects again.
C10_ReconnectOncePerSend == [] C10_SendShape /\ [][C10_NextSend]_vars

\* The second write of a send failed after the first had written the text.
C10_Witness ==
    /\ SendFailed
    /\ CountOf(trace, "send") = 2
    /\ Len(wire) > 0
    /\ ret.closed
    /\ termsock = "reset"

----------------------------------------------------------------------------
(* Specification of execute_cell: buffers of at most MaxLines lines, every    *)
(* cursor row, both delimiters and the options execute_cell branches on.      *)

ExecLines == { << >>, << 97 >>, << SP, 97 >>, << HASH >> }

ExecBuffers == SeqsUpTo(ExecLines, MaxLines) \ { << >> }

\* Under marks the header option is not read, and g:slime_python_ipython is
\* left unset.
ExecCfgs(n) ==
    { [DefaultCfg EXCEPT !.send_cell_headers = h, !.term_sendsocket = k,
                         !.update_file_variable = u, !.slime_python_ipython = y] :
        h \in { "0", "1" }, k \in { "0", "1" }, u \in { "0", "1" }, y \in BOOLEAN }
    \cup
    { [DefaultCfg EXCEPT !.delimit_cells_by = "marks", !.marks = mk,
                         !.term_sendsocket = k, !.update_file_variable = u] :
        mk \in MarkOptions(n), k \in { "0", "1" }, u \in { "0", "1" } }

Init ==
    /\ op = "init"
    /\ buffer \in ExecBuffers
    /\ current_row \in 1..Len(buffer)
    /\ cfg \in ExecCfgs(Len(buffer))
    /\ cell_boundaries = << >>
    /\ ret = NoRet
    /\ text = << >>
    /\ payload = None
    /\ term = << >>
    /\ clipboard = None
    /\ termsock = "unconnected"
    /\ wire = << >>
    /\ trace = << >>
    /\ remaining_chunks = << >>
    /\ exec_pc = "idle"

\* execute_cell(use_cpaste), with sendterm_by_socket when g:term_sendsocket
\* is "1" (a refused connect and a broken pipe stand for the failures).
ExecuteCellAction ==
    \E use_cpaste \in BOOLEAN :
      \E r \in { ExecuteCell(buffer, current_row, cfg, use_cpaste) } :
        /\ op' = "execute_cell"
        /\ ret' = [raised |-> r.raised, use_cpaste |-> use_cpaste,
                   cell |-> r.cell]
        /\ text' = r.input
        /\ payload' = r.payload
        /\ term' = r.term
        /\ clipboard' = r.clipboard
        /\ IF r.socket # None
           THEN \E c_exc \in Raises({ "ConnectionRefusedError" }),
                   s1_exc \in Raises({ "BrokenPipeError" }),
                   s2_exc \in Raises({ "BrokenPipeError" }) :
                  \E o \in { SendOutcome(r.socket[1], termsock, c_exc, s1_exc, s2_exc) } :
                    /\ termsock' = o.termsock
                    /\ wire' = o.wire
                    /\ trace' = o.calls
           ELSE /\ wire' = << >>
                /\ trace' = << >>
                /\ UNCHANGED termsock
        /\ UNCHANGED << current_row, cell_boundaries, buffer, cfg,
                        remaining_chunks, exec_pc >>

Next == ExecuteCellAction \/ PeerClose

Spec == Init /\ [][Next]_vars

----------------------------------------------------------------------------
(* Claims about execute_cell (Spec) *)

\* C8: filetertext maps every non-empty input to a non-empty payload and the
\* empty text to the empty payload; execute_cell sends the placeholder
\* comment for an empty cell, so the paste path never hands over an empty
\* payload, in a transmission or on the clipboard.
C8_NoEmptyPayload ==
    (op = "execute_cell" /\ payload # None) =>
        /\ (text # << >> => payload[1] # << >>)
        /\ (text = << >> => payload[1] = << >>)
        /\ (ret.cell = << >> /\ ~ret.use_cpaste =>
               \E i \in 1..Len(term) : term[i].string = EmptyCellComment)
        /\ (clipboard # None => clipboard[1] # << >>)
        /\ \A i \in 1..Len(term) : term[i].string # << >>

----------------------------------------------------------------------------
(* Specification of the %cpaste path of execute_cell, one pass of its loop   *)
(* at a time: short buffers, and long ones that fill up to MaxChunks chunks   *)
(* and a line more.                                                           *)

MaxChunks == 2

FF == 12

PasteLines == { << >>, << 97 >>, << HASH >>, << FF >> }

\* A buffer of n lines "a", but for an empty line at row blank (0: none).
LongBuffer(n, blank) == [ i \in 1..n |-> IF i = blank THEN << >> ELSE << 97 >> ]

LongBuffers ==
    { LongBuffer(ChunkSize * k + d, b) :
        k \in 1..MaxChunks, d \in { 0, 1 }, b \in { 0, 2 } }

PasteBuffers == (SeqsUpTo(PasteLines, MaxLines) \ { << >> }) \cup LongBuffers

\* The terminal transport (g:term_sendsocket is not "1").
PasteCfgs(n) ==
    { [DefaultCfg EXCEPT !.send_cell_headers = h, !.update_file_variable = u,
                         !.slime_python_ipython = y] :
        h \in { "0", "1" }, u \in { "0", "1" }, y \in BOOLEAN }
    \cup
    { [DefaultCfg EXCEPT !.delimit_cells_by = "marks", !.marks = mk,
                         !.update_file_variable = u] :
        mk \in MarkOptions(n), u \in { "0", "1" } }

InitPaste ==
    /\ op = "init"
    /\ buffer \in PasteBuffers
    /\ current_row \in IF Len(buffer) <= MaxLines THEN 1..Len(buffer)
                       ELSE { 1, Len(buffer) }
    /\ cfg \in PasteCfgs(Len(buffer))
    /\ cell_boundaries = << >>
    /\ ret = NoRet
    /\ text = << >>
    /\ payload = None
    /\ term = << >>
    /\ clipboard = None
    /\ termsock = "unconnected"
    /\ wire = << >>
    /\ trace = << >>
    /\ remaining_chunks = << >>
    /\ exec_pc = "idle"

\* execute_cell(True) up to "remaining_chunks = cell.splitlines()"; a call
\* that does not take the %cpaste loop runs to its end.
ExecuteCellCpaste ==
    /\ exec_pc # "loop"
    /\ \E r \in { ExecuteCell(buffer, current_row, cfg, TRUE) } :
         \E chunked \in { ~r.raised /\ r.socket = None
                          /\ ~cfg.slime_python_ipython } :
            /\ op' = "execute_cell"
            /\ ret' = [raised |-> r.raised, use_cpaste |-> TRUE,
                       cell |-> r.cell, chunked |-> chunked]
            /\ text' = r.input
            /\ payload' = r.payload
            /\ clipboard' = r.clipboard
            /\ IF chunked
               THEN /\ term' = r.head \o SlimeSend(cfg, CpasteBegin, TRUE)
                    /\ remaining_chunks' = SplitLines(r.payload[1])
                    /\ exec_pc' = "loop"
               ELSE /\ term' = r.term
                    /\ remaining_chunks' = << >>
                    /\ exec_pc' = "done"
    /\ wire' = << >>
    /\ trace' = << >>
    /\ UNCHANGED << current_row, cell_boundaries, buffer, cfg, termsock >>

\* One pass of "while remaining_chunks:".
SendChunk ==
    /\ exec_pc = "loop"
    /\ remaining_chunks # << >>
    /\ term' = term \o SlimeSend(cfg, Join(NextChunk(remaining_chunks), << LF >>), TRUE)
    /\ remaining_chunks' = RestChunks(remaining_chunks)
    /\ UNCHANGED << op, current_row, cell_boundaries, ret, buffer, cfg, text,
                    payload, clipboard, termsock, wire, trace, exec_pc >>

\* The exit of the loop and _slimesend("--").
EndPaste ==
    /\ exec_pc = "loop"
    /\ remaining_chunks = << >>
    /\ term' = term \o SlimeSend(cfg, CpasteEnd, TRUE)
    /\ exec_pc' = "done"
    /\ UNCHANGED << op, current_row, cell_boundaries, ret, buffer, cfg, text,
                    payload, clipboard, termsock, wire, trace,
                    remaining_chunks >>

NextPaste == ExecuteCellCpaste \/ SendChunk \/ EndPaste

\* The handler is straight-line Python: once called it runs each statement
\* in turn, so a pass of the loop or its exit that can run does run.
SpecPaste ==
    InitPaste /\ [][NextPaste]_vars /\ WF_vars(SendChunk) /\ WF_vars(EndPaste)

----------------------------------------------------------------------------
(* Claims about the %cpaste path (SpecPaste) *)

\* The call took the %cpaste loop.
OnChunkedPath == op = "execute_cell" /\ ret.chunked

SentWithReturn(m) == m.addreturn

\* The transmissions made with a return: the markers and the chunks (the
\* prompt keys and the cell header are sent without one).
PasteTx == SelectSeq(term, SentWithReturn)

\* Every transmission without a return comes before every one with a return.
HeadComesFirst ==
    \A i, j \in 1..Len(term) :
        (i < j /\ term[i].addreturn) => term[j].addreturn

\* The chunks sent so far: what follows the begin marker, without the end
\* marker once it is sent.
ChunkTx ==
    IF exec_pc = "done" THEN SubSeq(PasteTx, 2, Len(PasteTx) - 1)
    ELSE SubSeq(PasteTx, 2, Len(PasteTx))

\* The lines a transmitted string holds: its pieces between line feeds.
RECURSIVE LinesOfFrom(_, _, _)
LinesOfFrom(s, lo, hi) ==
    IF lo > hi THEN << << >> >>
    ELSE IF lo = hi
    THEN (IF s[lo] = LF THEN << << >>, << >> >> ELSE << << s[lo] >> >>)
    ELSE Glue(LinesOfFrom(s, lo, (lo + hi) \div 2),
              LinesOfFrom(s, (lo + hi) \div 2 + 1, hi))

LinesOf(s) == LinesOfFrom(s, 1, Len(s))

RECURSIVE AllLines(_)
AllLines(txs) ==
    IF Len(txs) = 0 THEN << >>
    ELSE LinesOf(txs[1].string) \o AllLines(Tail(txs))

\* The lines of the cell text the loop is given: str.splitlines of the
\* encoded cell.
CellTextLines == SplitLines(payload[1])

\* The encoded cell has no line at all, or one line that is empty.
NothingToSend == CellTextLines = << >> \/ CellTextLines = << << >> >>

MarkersInPlace ==
    /\ Len(PasteTx) >= 1
    /\ PasteTx[1].string = CpasteBegin
    /\ exec_pc = "done" =>
          /\ Len(PasteTx) >= 2
          /\ PasteTx[Len(PasteTx)].string = CpasteEnd

ChunkSizes ==
    \A k \in 1..Len(ChunkTx) :
        /\ Len(LinesOf(ChunkTx[k].string)) <= ChunkSize
        /\ (k < Len(ChunkTx) \/ remaining_chunks # << >>) =>
              Len(LinesOf(ChunkTx[k].string)) = ChunkSize

C11_PasteShape ==
    (OnChunkedPath /\ exec_pc \in { "loop", "done" }) =>
        /\ HeadComesFirst
        /\ MarkersInPlace
        /\ exec_pc = "done" => remaining_chunks = << >>
        /\ ChunkSizes
        /\ IF NothingToSend
           THEN Len(ChunkTx) = 0
           ELSE /\ AllLines(ChunkTx) \o remaining_chunks = CellTextLines
                /\ exec_pc = "done" => Len(ChunkTx) >= 1

====
